---------------------------- MODULE Spec2Model ----------------------------
(***************************************************************************)
(* Model of two parts of the fadecandy repository:                         *)
(*                                                                         *)
(*   firmware/hcolor.h                       the 48-bit colour helpers     *)
(*       HColor8, lerp8 and the temporal dithering of HPixel::dither()     *)
(*   testjig/production/arm_kinetis_debug.cpp                              *)
(*       ARMKinetisDebug::startup() and ARMKinetisDebug::flashMassErase()  *)
(*                                                                         *)
(* Four specifications share the variables below.  Each one drives one     *)
(* part and leaves the variables of the other parts at their idle values:  *)
(*                                                                         *)
(*   SpecHColor    one call of HColor8 / HColor8(rgb) / lerp8              *)
(*   SpecDither    a pixel that is recoloured and dithered frame by frame  *)
(*   SpecStartup   startup() against a target that may answer anything     *)
(*   SpecErase     flashMassErase() interleaved with the target's erase    *)
(***************************************************************************)
EXTENDS Integers, Sequences, FiniteSets, TLC

VARIABLES
    call,       \* hcolor: the pending call, a record [fn, ...arguments]
    ret,        \* hcolor: its return value, or NoRet before the call
    pixel,      \* dither: the HPixel, [color |-> <<r,g,b>>, residual |-> <<..>>]
    out,        \* dither: the last 24-bit value dither() returned
    hist,       \* dither: history of the calls (for the properties only)
    pc,         \* debug: the host's position in startup()/flashMassErase()
    status,     \* debug: the local `status` (a set of MDM status flags)
    dhcsr,      \* debug: the local `dhcsr`
    retries,    \* debug: the local `retries` of the halt loop
    pollLeft,   \* debug: polls apReadPoll may still make
    result,     \* debug: the routine's return value, or None while it runs
    logged,     \* debug: the last LOG_ERROR message, or None
    timedOut,   \* debug: a retry budget ran out without the awaited condition
    target      \* debug: the target's MDM-AP, [status, massErase, erase]

hcolorVars == <<call, ret>>
ditherVars == <<pixel, out, hist>>
debugVars  == <<pc, status, dhcsr, retries, pollLeft, result, logged, timedOut, target>>
vars == <<call, ret, pixel, out, hist, pc, status, dhcsr, retries, pollLeft,
          result, logged, timedOut, target>>

None == "none"

\* hcolor: no value returned yet
NoRet == <<>>

-----------------------------------------------------------------------------
(* C integer operators on the values the code uses *)

RECURSIVE BitAnd(_, _)
\* a & b, for a, b >= 0
BitAnd(a, b) ==
    IF a = 0 \/ b = 0 THEN 0
    ELSE (a % 2) * (b % 2) + 2 * BitAnd(a \div 2, b \div 2)

RECURSIVE BitOr(_, _)
\* a | b, for a, b >= 0
BitOr(a, b) ==
    IF a = 0 THEN b
    ELSE IF b = 0 THEN a
    ELSE (IF a % 2 = 1 \/ b % 2 = 1 THEN 1 ELSE 0) + 2 * BitOr(a \div 2, b \div 2)

\* a << n, for a >= 0 and a result that fits the type
Shl(a, n) == a * 2^n

\* a >> n on an int: arithmetic shift (gcc, ARM), i.e. floor(a / 2^n)
Shr(a, n) == a \div 2^n

\* conversion to uint8_t / uint16_t / int16_t
ToU8(x)  == x % 256
ToU16(x) == x % 65536
ToI16(x) == LET u == x % 65536 IN IF u >= 32768 THEN u - 65536 ELSE u

\* int is 32 bits wide on the targets of this code
IntMin == -2147483647 - 1
IntMax == 2147483647
InInt(x) == IntMin <= x /\ x <= IntMax

Min(a, b) == IF a < b THEN a ELSE b
Max(a, b) == IF a > b THEN a ELSE b

-----------------------------------------------------------------------------
(* firmware/hcolor.h: HColor8 and lerp8 *)

\* One component of HColor8: v << 8 only (the low byte is not filled in).
HColor8CompShiftOnly(v) == ToU16(Shl(v, 8))

\* One component of HColor8(r, g, b): uint16_t(v | (unsigned(v) << 8))
HColor8Comp(v) == ToU16(BitOr(v, Shl(v, 8)))

\* HColor8(uint8_t r, uint8_t g, uint8_t b); the arguments convert to uint8_t
HColor8(r, g, b) ==
    <<HColor8Comp(ToU8(r)), HColor8Comp(ToU8(g)), HColor8Comp(ToU8(b))>>

\* HColor8(uint32_t rgb)
HColor8Packed(rgb) ==
    HColor8(Shr(BitAnd(rgb, 16711680), 16),    \* (rgb & 0xFF0000) >> 16
            Shr(BitAnd(rgb, 65280), 8),        \* (rgb & 0x00FF00) >> 8
            BitAnd(rgb, 255))                  \* rgb & 0x0000FF

\* invA of lerp8 computed from 0xFF instead of 0x100.
LerpInvAOffByOne(alpha) == 255 - alpha

\* int invA = 0x100 - alpha
LerpInvA(alpha) == 256 - alpha

\* the int a component of lerp8 shifts: c1 * invA + c2 * alpha
LerpSum(a, b, alpha) == a * LerpInvA(alpha) + b * alpha

\* one component of lerp8: uint16_t((c1 * invA + c2 * alpha) >> 8)
LerpComp(a, b, alpha) == ToU16(Shr(LerpSum(a, b, alpha), 8))

\* lerp8(HColor c1, HColor c2, int alpha)
lerp8(c1, c2, alpha) ==
    <<LerpComp(c1[1], c2[1], alpha),
      LerpComp(c1[2], c2[2], alpha),
      LerpComp(c1[3], c2[3], alpha)>>

\* Inputs of the calls.  Every byte value is used for the red component;
\* green and blue take the edge values.
Bytes       == 0 .. 255
EdgeBytes   == {0, 1, 128, 255}
HighBytes   == {0, 1, 127}         \* bits 31..24 of a packed word (ignored)
Edge16      == {0, 255, 32896, 65535}
Colors16    == {<<r, g, b>> : r \in Edge16, g \in Edge16, b \in Edge16}
LerpColors  == {<<r, g, b>> : r \in Edge16, g \in {0, 65535}, b \in {32896}}
Alphas      == {0, 1, 128, 255, 256}

Pack(h, r, g, b) == h * 16777216 + r * 65536 + g * 256 + b

Calls ==
    {[fn |-> "HColor8", r |-> r, g |-> g, b |-> b] :
        r \in Bytes, g \in EdgeBytes, b \in EdgeBytes}
    \cup
    {[fn |-> "HColor8Packed", rgb |-> Pack(h, r, g, b)] :
        h \in HighBytes, r \in EdgeBytes, g \in Bytes, b \in EdgeBytes}
    \cup
    {[fn |-> "lerp8", c1 |-> c1, c2 |-> c2, alpha |-> a] :
        c1 \in LerpColors, c2 \in Colors16, a \in Alphas}

IdlePixel  == [color |-> <<0, 0, 0>>, residual |-> <<0, 0, 0>>]
IdleHist   == [n |-> 0]
IdleTarget == [status |-> {}, massErase |-> FALSE, erase |-> "idle"]

HColorIdle == call = [fn |-> None] /\ ret = NoRet
DitherIdle == pixel = IdlePixel /\ out = 0 /\ hist = IdleHist
DebugIdle ==
    /\ pc = "idle" /\ status = {} /\ dhcsr = 0 /\ retries = 0 /\ pollLeft = 0
    /\ result = None /\ logged = None /\ timedOut = FALSE
    /\ target = IdleTarget

HColorInit ==
    /\ call \in Calls
    /\ ret = NoRet
    /\ DitherIdle
    /\ DebugIdle

CallHColor8 ==
    /\ call.fn = "HColor8" /\ ret = NoRet
    /\ ret' = HColor8(call.r, call.g, call.b)
    /\ UNCHANGED <<call, ditherVars, debugVars>>

CallHColor8Packed ==
    /\ call.fn = "HColor8Packed" /\ ret = NoRet
    /\ ret' = HColor8Packed(call.rgb)
    /\ UNCHANGED <<call, ditherVars, debugVars>>

CallLerp8 ==
    /\ call.fn = "lerp8" /\ ret = NoRet
    /\ ret' = lerp8(call.c1, call.c2, call.alpha)
    /\ UNCHANGED <<call, ditherVars, debugVars>>

HColorNext == CallHColor8 \/ CallHColor8Packed \/ CallLerp8

SpecHColor == HColorInit /\ [][HColorNext]_vars

\* C1: for every 8-bit r, g, b, HColor8(r, g, b) is (r*257, g*257, b*257)
\* (0x00 -> 0x0000, 0x80 -> 0x8080, 0xFF -> 0xFFFF), and the packed form
\* HColor8(rgb) gives the same for r = bits 23..16, g = bits 15..8,
\* b = bits 7..0 of rgb.
ThmC1_HColor8Expands ==
    /\ (call.fn = "HColor8" /\ ret # NoRet) =>
          /\ ret = <<call.r * 257, call.g * 257, call.b * 257>>
          /\ (call.r = 0 => ret[1] = 0)
          /\ (call.r = 128 => ret[1] = 32896)
          /\ (call.r = 255 => ret[1] = 65535)
    /\ (call.fn = "HColor8Packed" /\ ret # NoRet) =>
          ret = <<((call.rgb \div 65536) % 256) * 257,
                  ((call.rgb \div 256) % 256) * 257,
                  (call.rgb % 256) * 257>>

\* The scenario of the specification: FF 80 00 arrives as (0xFFFF, 0x8080, 0),
\* and a packed word with high bits set has been expanded.
WitC1_Expanded ==
    \/ /\ call.fn = "HColor8" /\ call.r = 255 /\ call.g = 128 /\ call.b = 0
       /\ ret = <<65535, 32896, 0>>
    \/ /\ call.fn = "HColor8Packed" /\ call.rgb = Pack(127, 255, 128, 1)
       /\ ret = <<65535, 32896, 257>>

\* C6: lerp8(c1, c2, alpha) is exactly c1 when alpha = 0 and exactly c2 when
\* alpha = 0x100, and the int it shifts does not overflow.
ThmC6_LerpEndpoints ==
    (call.fn = "lerp8" /\ ret # NoRet) =>
        /\ (call.alpha = 0 => ret = call.c1)
        /\ (call.alpha = 256 => ret = call.c2)
        /\ \A i \in 1 .. 3 :
              /\ InInt(call.c1[i] * LerpInvA(call.alpha))
              /\ InInt(call.c2[i] * call.alpha)
              /\ InInt(LerpSum(call.c1[i], call.c2[i], call.alpha))

WitC6_LerpAtEnd ==
    /\ call.fn = "lerp8" /\ call.alpha = 256
    /\ call.c1 = <<65535, 65535, 32896>> /\ call.c2 = <<0, 255, 65535>>
    /\ ret = call.c2

-----------------------------------------------------------------------------
(* firmware/hcolor.h: HPixel::dither() *)

\* Frames dithered in one behaviour.
MaxFrames == 4

\* The 8-bit value expanded by a shift only (v << 8).
Expand8ShiftOnly(v) == v * 256

\* "expanding the 8-bit value back to 16-bit": r8 * 257
Expand8(v) == v * 257

\* "Round to the nearest 8-bit value":
\* std::min<int>(0xff, std::max<int>(0, (x16 + 0x80) >> 8))
DitherRound(x16) == Min(255, Max(0, Shr(x16 + 128, 8)))

\* "Incorporate the residual from last frame": int x16 = color + residual
DitherIncorporate(c, res) == c + res

\* residual[i] = x16 - (x8 * 257), stored in an int16_t
DitherResidual(x16, x8) == ToI16(x16 - Expand8(x8))

\* return (r8 << 16) | (g8 << 8) | b8
DitherPack(r8, g8, b8) == BitOr(BitOr(Shl(r8, 16), Shl(g8, 8)), b8)

\* HPixel::dither(): the pixel after the call and the value returned
dither(p) ==
    LET x16 == [i \in 1 .. 3 |-> DitherIncorporate(p.color[i], p.residual[i])]
        x8  == [i \in 1 .. 3 |-> DitherRound(x16[i])]
    IN  [pixel |-> [color    |-> p.color,
                    residual |-> [i \in 1 .. 3 |-> DitherResidual(x16[i], x8[i])]],
         ret   |-> DitherPack(x8[1], x8[2], x8[3])]

\* Colours the application stores in HPixel::color (uint16_t components) and
\* residuals the pixel may start with (int16_t, the extremes included).
DitherColors ==
    {<<0, 0, 0>>, <<65535, 32896, 100>>, <<127, 128, 65407>>, <<255, 383, 65408>>,
     <<32768, 65280, 1>>, <<65534, 129, 32767>>}
InitialResiduals ==
    {<<0, 0, 0>>, <<-32768, 32767, -383>>, <<127, -128, 300>>, <<32767, -32768, -1>>}

\* byte i of a packed 24-bit RGB value (1: red, bits 23..16)
Comp8(rgb, i) == (rgb \div (2^(8 * (3 - i)))) % 256

DitherInit ==
    /\ pixel \in {[color |-> c, residual |-> r] :
                     c \in DitherColors, r \in InitialResiduals}
    /\ out = 0
    /\ hist = [n |-> 0, prev |-> pixel, res0 |-> pixel.residual,
               sumColor |-> <<0, 0, 0>>, sum8 |-> <<0, 0, 0>>]
    /\ HColorIdle
    /\ DebugIdle

\* The application writes the public field HPixel::color between frames.
SetColor ==
    /\ hist.n < MaxFrames
    /\ \E c \in DitherColors \ {pixel.color} :
          pixel' = [pixel EXCEPT !.color = c]
    /\ UNCHANGED <<out, hist, hcolorVars, debugVars>>

\* One call of pixel.dither(), as HPixelBuffer::show() makes per frame.
Dither ==
    /\ hist.n < MaxFrames
    /\ LET d == dither(pixel) IN
          /\ pixel' = d.pixel
          /\ out' = d.ret
          /\ hist' = [n        |-> hist.n + 1,
                      prev     |-> pixel,
                      res0     |-> hist.res0,
                      sumColor |-> [i \in 1 .. 3 |-> hist.sumColor[i] + pixel.color[i]],
                      sum8     |-> [i \in 1 .. 3 |-> hist.sum8[i] + Comp8(d.ret, i)]]
    /\ UNCHANGED <<hcolorVars, debugVars>>

DitherNext == SetColor \/ Dither

SpecDither == DitherInit /\ [][DitherNext]_vars

\* C5: after every dither() call the stored residual of each component is
\* (color + previous residual) - 257 * (the 8-bit value returned); hence over
\* the calls made so far, the sum of 257 * output equals the sum of the
\* colours plus the initial residual minus the final residual.
ThmC5_ResidualCarriesError ==
    hist.n > 0 =>
        \A i \in 1 .. 3 :
            /\ pixel.residual[i] =
                  (hist.prev.color[i] + hist.prev.residual[i]) - 257 * Comp8(out, i)
            /\ 257 * hist.sum8[i] =
                  hist.sumColor[i] + hist.res0[i] - pixel.residual[i]

\* Three frames dithered, the last one with a rounding that was clamped at
\* both ends and an error carried into the next frame.
WitC5_ErrorCarried ==
    /\ hist.n >= 3
    /\ \E i \in 1 .. 3 : Comp8(out, i) = 255 /\ pixel.residual[i] > 0
    /\ \E i \in 1 .. 3 : Comp8(out, i) = 0 /\ pixel.residual[i] < 0
    /\ hist.prev.residual # pixel.residual

-----------------------------------------------------------------------------
(* testjig/production/arm_kinetis_debug.cpp: the debug port *)

\* The MDM-AP status flags the two routines test (REG_MDM_STATUS_*).
StatusFlags == {"SYS_NRESET", "FLASH_READY", "FLASH_ERASE_ACK", "MASS_ERASE_ENABLE"}

\* "const unsigned resetRetries = 2000"
resetRetries == 2000

\* retries of an apReadPoll() call that passes none (startup's second wait)
DefaultRetries == 50

\* "unsigned retries = 50" of the halt loop
HaltRetries == 50

\* retries of flashMassErase's wait
EraseRetries == 10000

\* the MDM-AP IDR of a supported chip, 0x001C0000
MdmIdr == 1835008

\* a return statement, with the LOG_ERROR before it (None: nothing logged)
Return(value, message) ==
    /\ pc' = "done"
    /\ result' = value
    /\ logged' = message

\* One poll of apReadPoll(addr, data, mask, expected, retries) with `left`
\* polls left: the read fails, the masked data is the expected one, or the
\* poll is spent; at the last poll the wait gives up.  The count is local to
\* apReadPoll: pollLeft is 0 outside a wait.
ApReadPoll(ok, data, mask, expected, left) ==
    IF ~ok THEN "fail"
    ELSE IF (data \cap mask) = (expected \cap mask) THEN "match"
    ELSE IF left <= 1 THEN "timeout"
    ELSE "again"

\* A wait of startup()/flashMassErase(): one poll at position `here`, which
\* on a match goes on with `onMatch` (an action on pc, result, logged), and
\* when apReadPoll returns false returns false after logging `failMsg`.
PollAt(here, ok, data, mask, expected, onMatch, failMsg) ==
    LET r == ApReadPoll(ok, data, mask, expected, pollLeft) IN
    /\ pc = here
    /\ status' = (IF ok THEN data ELSE status)
    /\ CASE r = "match"   -> /\ onMatch
                             /\ pollLeft' = 0
                             /\ UNCHANGED timedOut
         [] r = "again"   -> /\ pollLeft' = pollLeft - 1
                             /\ UNCHANGED <<pc, result, logged, timedOut>>
         [] r = "timeout" -> /\ pollLeft' = 0
                             /\ timedOut' = TRUE
                             /\ Return(FALSE, failMsg)
         [] OTHER         -> /\ Return(FALSE, failMsg)
                             /\ pollLeft' = 0
                             /\ UNCHANGED timedOut

\* A call that only succeeds or fails (apWrite, initMemPort, memStore,
\* memStoreAndVerify): "if (!call) return false;" and otherwise go on.
CallAt(here, ok, next) ==
    /\ pc = here
    /\ IF ok THEN pc' = next /\ UNCHANGED <<result, logged>>
             ELSE Return(FALSE, None)

-----------------------------------------------------------------------------
(* ARMKinetisDebug::startup() *)

\* values the target may give for DHCSR (S_HALT is bit 17)
DhcsrValues == {3, 65539, 131072, 196611}
\* values the target may give for the MDM status: every combination of the
\* two flags startup() waits for
StartupStatusValues == SUBSET {"SYS_NRESET", "FLASH_READY"}
IdrValues   == {MdmIdr, 0}

\* the halt loop without its "retries--"
HaltRetriesKept(r) == r

\* "retries--"
HaltRetriesNext(r) == r - 1

\* dhcsr & (1 << 17)
SHalt(d) == BitAnd(d, Shl(1, 17)) # 0

\* "while (!(dhcsr & (1 << 17)) && retries)"
HaltLoopAgain(d, r) == ~SHalt(d) /\ r # 0

\* "if (!retries)"
HaltGivesUp(r) == r = 0

StartupInit ==
    /\ pc = "idr" /\ status = {} /\ dhcsr = 0 /\ retries = 0 /\ pollLeft = 0
    /\ result = None /\ logged = None /\ timedOut = FALSE
    /\ target = IdleTarget
    /\ HColorIdle
    /\ DitherIdle

\* lines 39-44
StartupCheckIdr ==
    /\ pc = "idr"
    /\ \E ok \in BOOLEAN, idr \in IdrValues :
          IF ~ok THEN Return(FALSE, None)
          ELSE IF idr # MdmIdr THEN Return(FALSE, "no MDM-AP")
          ELSE pc' = "hold" /\ UNCHANGED <<result, logged>>
    /\ UNCHANGED <<status, dhcsr, retries, pollLeft, timedOut, target,
                   hcolorVars, ditherVars>>

\* line 47, and the budget of the wait of line 49
StartupHoldReset ==
    /\ \E ok \in BOOLEAN : CallAt("hold", ok, "poll_nreset")
    /\ pollLeft' = resetRetries
    /\ UNCHANGED <<status, dhcsr, retries, timedOut, target, hcolorVars, ditherVars>>

\* line 49
StartupPollOutOfReset ==
    /\ \E ok \in BOOLEAN, data \in StartupStatusValues :
          PollAt("poll_nreset", ok, data, {"SYS_NRESET"}, StatusFlags,
                 pc' = "reset_req" /\ UNCHANGED <<result, logged>>,
                 None)
    /\ UNCHANGED <<dhcsr, retries, target, hcolorVars, ditherVars>>

\* line 53, and the budget of the wait of line 55
StartupResetReq ==
    /\ \E ok \in BOOLEAN : CallAt("reset_req", ok, "poll_inreset")
    /\ pollLeft' = DefaultRetries
    /\ UNCHANGED <<status, dhcsr, retries, timedOut, target, hcolorVars, ditherVars>>

\* line 55
StartupPollInReset ==
    /\ \E ok \in BOOLEAN, data \in StartupStatusValues :
          PollAt("poll_inreset", ok, data, {"SYS_NRESET"}, {},
                 pc' = "ctl_clear" /\ UNCHANGED <<result, logged>>,
                 None)
    /\ UNCHANGED <<dhcsr, retries, target, hcolorVars, ditherVars>>

\* line 57
StartupControlClear ==
    /\ \E ok \in BOOLEAN : CallAt("ctl_clear", ok, "memport")
    /\ UNCHANGED <<status, dhcsr, retries, pollLeft, timedOut, target,
                   hcolorVars, ditherVars>>

\* line 61, and the budget of the wait of line 65
StartupInitMemPort ==
    /\ \E ok \in BOOLEAN : CallAt("memport", ok, "poll_ready")
    /\ pollLeft' = resetRetries
    /\ UNCHANGED <<status, dhcsr, retries, timedOut, target, hcolorVars, ditherVars>>

\* line 65
StartupPollReady ==
    /\ \E ok \in BOOLEAN, data \in StartupStatusValues :
          PollAt("poll_ready", ok, data, {"SYS_NRESET", "FLASH_READY"}, StatusFlags,
                 pc' = "dbg_enable" /\ UNCHANGED <<result, logged>>,
                 None)
    /\ UNCHANGED <<dhcsr, retries, target, hcolorVars, ditherVars>>

\* lines 69-74
StartupEnableDebug ==
    /\ \E ok \in BOOLEAN : CallAt("dbg_enable", ok, "halt")
    /\ retries' = HaltRetries
    /\ UNCHANGED <<status, dhcsr, pollLeft, timedOut, target, hcolorVars, ditherVars>>

\* lines 75-89: one pass of the do-while loop and, when it leaves the loop,
\* the test that follows it
StartupHaltRequest ==
    /\ pc = "halt"
    /\ retries' = HaltRetriesNext(retries)
    /\ \E storeOk \in BOOLEAN, loadOk \in BOOLEAN, d \in DhcsrValues :
          IF ~storeOk
          THEN Return(FALSE, None) /\ UNCHANGED <<dhcsr, timedOut>>
          ELSE IF ~loadOk
          THEN Return(FALSE, None) /\ UNCHANGED <<dhcsr, timedOut>>
          ELSE /\ dhcsr' = d
               /\ IF HaltLoopAgain(d, retries')
                  THEN UNCHANGED <<pc, result, logged, timedOut>>
                  ELSE IF HaltGivesUp(retries')
                  THEN /\ Return(FALSE, "halt failed")
                       /\ timedOut' = (timedOut \/ ~SHalt(d))
                  ELSE /\ pc' = "scgc5"
                       /\ UNCHANGED <<result, logged, timedOut>>
    /\ UNCHANGED <<status, pollLeft, target, hcolorVars, ditherVars>>

\* line 92
StartupClockScgc5 ==
    /\ \E ok \in BOOLEAN : CallAt("scgc5", ok, "scgc6")
    /\ UNCHANGED <<status, dhcsr, retries, pollLeft, timedOut, target,
                   hcolorVars, ditherVars>>

\* line 94
StartupClockScgc6 ==
    /\ \E ok \in BOOLEAN : CallAt("scgc6", ok, "ram1")
    /\ UNCHANGED <<status, dhcsr, retries, pollLeft, timedOut, target,
                   hcolorVars, ditherVars>>

\* line 98
StartupRamTest1 ==
    /\ \E ok \in BOOLEAN : CallAt("ram1", ok, "ram2")
    /\ UNCHANGED <<status, dhcsr, retries, pollLeft, timedOut, target,
                   hcolorVars, ditherVars>>

\* lines 100-104
StartupRamTest2 ==
    /\ pc = "ram2"
    /\ \E ok \in BOOLEAN : Return(ok, None)
    /\ UNCHANGED <<status, dhcsr, retries, pollLeft, timedOut, target,
                   hcolorVars, ditherVars>>

StartupNext ==
    \/ StartupCheckIdr
    \/ StartupHoldReset
    \/ StartupPollOutOfReset
    \/ StartupResetReq
    \/ StartupPollInReset
    \/ StartupControlClear
    \/ StartupInitMemPort
    \/ StartupPollReady
    \/ StartupEnableDebug
    \/ StartupHaltRequest
    \/ StartupClockScgc5
    \/ StartupClockScgc6
    \/ StartupRamTest1
    \/ StartupRamTest2

\* The host runs startup() to its end: it is never suspended for good.
SpecStartup == StartupInit /\ [][StartupNext]_vars /\ WF_vars(StartupNext)

\* C2: startup() terminates for every behaviour of the target: each wait is
\* a poll with a bounded budget (at most 2000 polls left in a wait, at most 50
\* passes of the halt loop), and when a budget runs out without the awaited
\* condition the routine has returned false.
ThmC2_StartupTerminates ==
    /\ <>(pc = "done")
    /\ [](pollLeft \in 0 .. resetRetries /\ retries \in 0 .. HaltRetries)
    /\ [](timedOut => (pc = "done" /\ result = FALSE))

\* The three waits were passed and the halt loop used up its 50 requests
\* without ever reading S_HALT.
WitC2_HaltBudgetExhausted ==
    /\ pc = "done" /\ result = FALSE /\ timedOut
    /\ retries = 0 /\ ~SHalt(dhcsr) /\ logged = "halt failed"

\* C4: the halt step fails ("Failed to put CPU in debug halt state", return
\* false) only when the CPU did not enter debug halt: when a halt request,
\* the last permitted one included, reads back S_HALT set, startup() does not
\* report that failure.
CexC4_HaltFailureOnlyWithoutHalt ==
    (pc = "done" /\ logged = "halt failed") => ~SHalt(dhcsr)

-----------------------------------------------------------------------------
(* ARMKinetisDebug::flashMassErase() and the target's mass erase *)

\* The target before the call: no erase requested; an erase requested earlier
\* may still be running (FLASH_ERASE_ACK raised).
EraseTargets ==
    {[status |-> st, massErase |-> FALSE, erase |-> "idle"] :
        st \in SUBSET {"FLASH_READY", "MASS_ERASE_ENABLE"}}
    \cup
    {[status |-> {"FLASH_ERASE_ACK", "MASS_ERASE_ENABLE"} \cup st,
      massErase |-> TRUE, erase |-> "earlier"] : st \in SUBSET {"FLASH_READY"}}

EraseInit ==
    /\ pc = "check" /\ status = {} /\ dhcsr = 0 /\ retries = 0 /\ pollLeft = 0
    /\ result = None /\ logged = None /\ timedOut = FALSE
    /\ target \in EraseTargets
    /\ HColorIdle
    /\ DitherIdle

\* lines 111-125: read the status and refuse to start
EraseCheckStatus ==
    /\ pc = "check"
    /\ \E ok \in BOOLEAN :
          IF ~ok THEN Return(FALSE, None) /\ UNCHANGED status
          ELSE /\ status' = target.status
               /\ IF "FLASH_READY" \notin status'
                  THEN Return(FALSE, "not ready before")
                  ELSE IF "FLASH_ERASE_ACK" \in status'
                  THEN Return(FALSE, "already in progress")
                  ELSE IF "MASS_ERASE_ENABLE" \notin status'
                  THEN Return(FALSE, "disabled")
                  ELSE pc' = "write" /\ UNCHANGED <<result, logged>>
    /\ UNCHANGED <<dhcsr, retries, pollLeft, timedOut, target, hcolorVars, ditherVars>>

\* lines 127-129: write CORE_HOLD_RESET | MASS_ERASE to the MDM control
\* register, which requests the erase; and the budget of the wait of line 132
EraseWriteControl ==
    /\ pc = "write"
    /\ \E ok \in BOOLEAN :
          IF ok
          THEN /\ pc' = "poll"
               /\ pollLeft' = EraseRetries
               /\ target' = [target EXCEPT !.massErase = TRUE, !.erase = "requested"]
               /\ UNCHANGED <<result, logged>>
          ELSE Return(FALSE, None) /\ UNCHANGED <<pollLeft, target>>
    /\ UNCHANGED <<status, dhcsr, retries, timedOut, hcolorVars, ditherVars>>

\* lines 131-142: one poll of the wait for FLASH_ERASE_ACK == 0 and, when the
\* poll matches, the test of FLASH_READY that follows
ErasePoll ==
    /\ \E ok \in BOOLEAN :
          PollAt("poll", ok, target.status, {"FLASH_ERASE_ACK"}, {},
                 IF "FLASH_READY" \in target.status
                 THEN Return(TRUE, None)
                 ELSE Return(FALSE, "not ready after"),
                 "timed out")
    /\ UNCHANGED <<dhcsr, retries, target, hcolorVars, ditherVars>>

\* The target starts the erase it was asked for: FLASH_ERASE_ACK goes up.
TargetBeginErase ==
    /\ target.erase = "requested"
    /\ target' = [target EXCEPT !.erase = "running",
                                !.status = @ \cup {"FLASH_ERASE_ACK"}]
    /\ UNCHANGED <<pc, status, dhcsr, retries, pollLeft, result, logged, timedOut,
                   hcolorVars, ditherVars>>

\* The target finishes an erase: FLASH_ERASE_ACK goes down, and the flash
\* controller is ready again or not.
TargetFinishErase ==
    /\ target.erase \in {"running", "earlier"}
    /\ \E ready \in BOOLEAN :
          target' = [target EXCEPT
                        !.erase = (IF @ = "running" THEN "finished" ELSE "idle"),
                        !.massErase = FALSE,
                        !.status = (@ \ {"FLASH_ERASE_ACK", "FLASH_READY"})
                                   \cup (IF ready THEN {"FLASH_READY"} ELSE {})]
    /\ UNCHANGED <<pc, status, dhcsr, retries, pollLeft, result, logged, timedOut,
                   hcolorVars, ditherVars>>

EraseNext ==
    \/ EraseCheckStatus
    \/ EraseWriteControl
    \/ ErasePoll
    \/ TargetBeginErase
    \/ TargetFinishErase

SpecErase == EraseInit /\ [][EraseNext]_vars

\* C3: flashMassErase() returns true only if, between its write of
\* CORE_HOLD_RESET|MASS_ERASE and its return, the target has started the
\* erase and then finished it with FLASH_READY set: it never returns true
\* while the requested erase has not yet begun or is still running.
CexC3_TrueOnlyAfterErase ==
    (pc = "done" /\ result = TRUE) =>
        (target.erase = "finished" /\ "FLASH_READY" \in target.status)

=============================================================================
